---- MODULE Spec2Model ----
(***************************************************************************)
(* Model of the two generation scripts of the repository:                  *)
(*   SKILLs/seedance/scripts/generate_video.py  (specification Spec)       *)
(*   SKILLs/seedream/scripts/generate_image.py  (specification SpecImage)  *)
(* and of process_image_path on its own (specification SpecNormalize).     *)
(*                                                                         *)
(* Time is counted in ticks, TicksPerSecond ticks to the second, so that   *)
(* the truncation int(time.time() - start_time) is a real division.        *)
(*                                                                         *)
(* An error message is a sequence of tokens; the substring tests of the    *)
(* code ("..." in str(e)) are membership tests on the tokens.  The tokens  *)
(* stand for the message texts of the source:                              *)
(*   "ImageProcessFailed"  图片处理失败     "CreateFailed"   任务创建失败  *)
(*   "AuthFailed"          认证失败         "PermissionDenied" 权限不足    *)
(*   "RateLimited"         请求过于频繁     "BadParams"      参数错误      *)
(*   "MissingTaskId"       API 返回格式错误：缺少任务ID                    *)
(*   "RequestTimeout"      请求超时         "ConnectFailed"  连接失败      *)
(*   "StatusQueryFailed"   状态查询失败     "StatusQueryTimeout" 状态查询超时 *)
(*   "TaskFailed"          任务失败         "UnknownError"   未知错误      *)
(*   "TaskTimeout"         任务超时 (TimeoutError)                         *)
(*   "MissingVideoUrl"     API 返回格式错误：缺少 video_url                *)
(*   "DownloadTimeout"     下载超时         "DownloadFailed" 下载失败      *)
(*   "WriteFailed"         文件写入失败     "GenerateFailed" 生成失败      *)
(*   "MissingData"         API 返回格式错误：缺少 data                     *)
(*   "MissingUrl"          API 返回格式错误：缺少 url                      *)
(***************************************************************************)
EXTENDS Integers, Sequences, FiniteSets, TLC

VARIABLES
    pc,             \* position of main: start, create, poll_start, poll_top,
                    \* poll_request, poll_sleep, download, generate, save, exit
    exit_code,      \* process exit status, -1 while running
    error,          \* message of the exception that ended main, << >> if none
    timeout,        \* args.timeout (seconds)
    poll_interval,  \* args.poll_interval (seconds)
    output,         \* Path(args.output) as [parent, stem, suffix]
    posts,          \* creation / generation requests sent so far
    create_resp,    \* what the creation / generation request met, NO_RESPONSE before
    task_id,        \* value returned by create_video_task, "" before
    now,            \* ticks since start_time of poll_task_status
    retry_count,    \* retry_count of poll_task_status
    sleep_secs,     \* seconds the pending time.sleep will take
    result,         \* what poll_task_status returned: video_url, "" if absent
    lastRead,       \* class of the last status read, "unread" before the first
    consecFailed,   \* failed status reads since the last successful one
    consecTransient,\* transient failed reads in a row, nothing else between
    gets,           \* status requests issued so far (saturates at MaxReads)
    waits,          \* reads that gave a non-terminal status (saturates)
    anyFailed,      \* some status read of the run has failed
    data,           \* generate_image: result["data"], a sequence of urls
    idx,            \* generate_image main: entries of data the loop has consumed
    dirs,           \* directories created by the downloaders
    files,          \* files opened for writing: path -> "complete" | "partial"
    dl_log,         \* downloads attempted, in order: <<index, path, outcome, url>>
    norm_input,     \* process_image_path on its own: the image_path given
    norm_fs,        \* ... the file system it runs on
    norm_out,       \* ... what the call gave, NOT_CALLED before
    norm_again      \* ... what the call on that result gave, NOT_CALLED before

vars == << pc, exit_code, error, timeout, poll_interval, output, posts,
           create_resp, task_id, now,
           retry_count, sleep_secs, result, lastRead, consecFailed,
           consecTransient, gets, waits, anyFailed, data, idx, dirs, files,
           dl_log, norm_input, norm_fs, norm_out, norm_again >>

countVars == << gets, waits, anyFailed >>
pollVars == << now, retry_count, sleep_secs, result, lastRead, consecFailed,
               consecTransient, countVars >>
imageVars == << data, idx >>
argVars == << timeout, poll_interval, output >>
createVars == << posts, create_resp, task_id >>
fsVars == << dirs, files, dl_log >>
normVars == << norm_input, norm_fs, norm_out, norm_again >>

-----------------------------------------------------------------------------
(* Bounds of the model *)

TicksPerSecond == 2
MaxImages == 2          \* --image arguments given
MaxData == 3            \* entries of result["data"]
FailCap == 4            \* consecFailed saturates here
MaxReads == 4           \* gets and waits saturate here

(* Program constants *)

DEFAULT_POLL_INTERVAL == 5
DEFAULT_TIMEOUT == 300
max_retries == 3
BACKOFF_SECONDS == 2
STATUS_REQUEST_TIMEOUT == 10
MIN_POLL_INTERVAL == 1
MAX_POLL_INTERVAL == 10
MIN_TIMEOUT == 60
MAX_TIMEOUT == 600

-----------------------------------------------------------------------------
(* Helpers *)

Contains(msg, tok) == \E i \in 1..Len(msg) : msg[i] = tok

Min(a, b) == IF a < b THEN a ELSE b

StartsWith(s, p) == Len(s) >= Len(p) /\ SubSeq(s, 1, Len(p)) = p

(* str[n:] of Python, n counted from 0 *)
DropFirst(s, n) == SubSeq(s, n + 1, Len(s))

-----------------------------------------------------------------------------
(* Strings the normalizer inspects are sequences of characters *)

HTTP_PREFIX == << "h", "t", "t", "p", ":", "/", "/" >>
HTTPS_PREFIX == << "h", "t", "t", "p", "s", ":", "/", "/" >>
DATA_PREFIX == << "d", "a", "t", "a", ":" >>
FILE_PREFIX == << "f", "i", "l", "e", ":", "/", "/" >>
BASE64_MARK == << ";", "b", "a", "s", "e", "6", "4", "," >>

CWD == << "/", "w", "/" >>

(* Path(image_path).absolute() *)
Absolute(p) == IF Len(p) > 0 /\ p[1] = "/" THEN p ELSE CWD \o p

LastIndexOf(s, c) ==
    LET hits == { i \in 1..Len(s) : s[i] = c }
    IN  IF hits = {} THEN 0 ELSE CHOOSE i \in hits : \A j \in hits : j <= i

(* Path.name: the last component of the path *)
PathName(p) == DropFirst(p, LastIndexOf(p, "/"))

(* Path.suffix: from the last dot of the name, unless the dot is its first *)
(* or its last character *)
PathSuffix(p) ==
    LET name == PathName(p)
        i == LastIndexOf(name, ".")
    IN  IF 1 < i /\ i < Len(name) THEN DropFirst(name, i - 1) ELSE << >>

LowerChar(c) ==
    CASE c = "P" -> "p" [] c = "N" -> "n" [] c = "G" -> "g" [] c = "J" -> "j"
      [] c = "I" -> "i" [] c = "F" -> "f" [] c = "T" -> "t" [] c = "E" -> "e"
      [] c = "H" -> "h" [] c = "C" -> "c" [] c = "X" -> "x"
      [] OTHER -> c

Lower(s) == [ i \in 1..Len(s) |-> LowerChar(s[i]) ]

IMAGE_JPEG == << "i", "m", "a", "g", "e", "/", "j", "p", "e", "g" >>
IMAGE_PNG == << "i", "m", "a", "g", "e", "/", "p", "n", "g" >>
IMAGE_GIF == << "i", "m", "a", "g", "e", "/", "g", "i", "f" >>
IMAGE_WEBP == << "i", "m", "a", "g", "e", "/", "w", "e", "b", "p" >>
IMAGE_BMP == << "i", "m", "a", "g", "e", "/", "b", "m", "p" >>
IMAGE_TIFF == << "i", "m", "a", "g", "e", "/", "t", "i", "f", "f" >>
IMAGE_HEIC == << "i", "m", "a", "g", "e", "/", "h", "e", "i", "c" >>

(* ext_to_mime, as a set of <<extension, MIME type>> pairs *)
ext_to_mime ==
    { << << ".", "j", "p", "g" >>, IMAGE_JPEG >>,
      << << ".", "j", "p", "e", "g" >>, IMAGE_JPEG >>,
      << << ".", "p", "n", "g" >>, IMAGE_PNG >>,
      << << ".", "g", "i", "f" >>, IMAGE_GIF >>,
      << << ".", "w", "e", "b", "p" >>, IMAGE_WEBP >>,
      << << ".", "b", "m", "p" >>, IMAGE_BMP >>,
      << << ".", "t", "i", "f", "f" >>, IMAGE_TIFF >>,
      << << ".", "t", "i", "f" >>, IMAGE_TIFF >>,
      << << ".", "h", "e", "i", "c" >>, IMAGE_HEIC >> }

(* ext lowered, looked up, image/jpeg when it is not in the table *)
(* Mutant: the extension is looked up as it is written *)
MimeOf_CaseSensitive(path) ==
    LET ext == PathSuffix(path)
        hit == { e \in ext_to_mime : e[1] = ext }
    IN  IF hit = {} THEN IMAGE_JPEG ELSE (CHOOSE e \in hit : TRUE)[2]

MimeOf(path) ==
    LET ext == Lower(PathSuffix(path))
        hit == { e \in ext_to_mime : e[1] = ext }
    IN  IF hit = {} THEN IMAGE_JPEG ELSE (CHOOSE e \in hit : TRUE)[2]

MimeWarning(path) ==
    { e \in ext_to_mime : e[1] = Lower(PathSuffix(path)) } = {}

(* base64.b64encode on a sequence of bytes *)
B64_ALPHABET ==
    << "A", "B", "C", "D", "E", "F", "G", "H", "I", "J", "K", "L", "M", "N", "O", "P",
       "Q", "R", "S", "T", "U", "V", "W", "X", "Y", "Z", "a", "b", "c", "d", "e", "f",
       "g", "h", "i", "j", "k", "l", "m", "n", "o", "p", "q", "r", "s", "t", "u", "v",
       "w", "x", "y", "z", "0", "1", "2", "3", "4", "5", "6", "7", "8", "9", "+", "/" >>

B64Char(v) == B64_ALPHABET[v + 1]

RECURSIVE b64encode(_)
b64encode(bytes) ==
    IF Len(bytes) = 0 THEN << >>
    ELSE IF Len(bytes) = 1 THEN
        << B64Char(bytes[1] \div 4), B64Char((bytes[1] % 4) * 16), "=", "=" >>
    ELSE IF Len(bytes) = 2 THEN
        << B64Char(bytes[1] \div 4),
           B64Char((bytes[1] % 4) * 16 + bytes[2] \div 16),
           B64Char((bytes[2] % 16) * 4), "=" >>
    ELSE
        << B64Char(bytes[1] \div 4),
           B64Char((bytes[1] % 4) * 16 + bytes[2] \div 16),
           B64Char((bytes[2] % 16) * 4 + bytes[3] \div 64),
           B64Char(bytes[3] % 64) >> \o b64encode(DropFirst(bytes, 3))

(* A file system maps an absolute path to [kind, bytes], kind one of         *)
(* "missing", "dir" (anything that exists and is no regular file), "file",  *)
(* "unreadable" (a regular file open() refuses); a path it does not list is *)
(* missing                                                                  *)
FsEntry(fs, abs_path) ==
    IF abs_path \in DOMAIN fs THEN fs[abs_path]
    ELSE [ kind |-> "missing", bytes |-> << >> ]

(* abs_path.exists() and abs_path.is_file() *)
PathExists(entry) == entry.kind # "missing"
PathIsFile(entry) == entry.kind \in { "file", "unreadable" }

(* Mutant: is_file() is tested before exists() *)
process_image_path_IsFileFirst(image_path, fs) ==
    LET local == IF StartsWith(image_path, FILE_PREFIX)
                 THEN DropFirst(image_path, 7) ELSE image_path
        abs_path == Absolute(local)
        entry == FsEntry(fs, abs_path)
    IN  IF StartsWith(image_path, HTTP_PREFIX) \/ StartsWith(image_path, HTTPS_PREFIX)
        THEN [ok |-> TRUE, url |-> image_path, exc |-> "", warned |-> FALSE]
        ELSE IF StartsWith(image_path, DATA_PREFIX)
        THEN [ok |-> TRUE, url |-> image_path, exc |-> "", warned |-> FALSE]
        ELSE IF ~ PathIsFile(entry)
        THEN [ok |-> FALSE, url |-> << >>, exc |-> "ValueError", warned |-> FALSE]
        ELSE IF ~ PathExists(entry)
        THEN [ok |-> FALSE, url |-> << >>, exc |-> "FileNotFoundError", warned |-> FALSE]
        ELSE IF entry.kind = "unreadable"
        THEN [ok |-> FALSE, url |-> << >>, exc |-> "PermissionError",
              warned |-> MimeWarning(abs_path)]
        ELSE [ok |-> TRUE,
              url |-> DATA_PREFIX \o MimeOf(abs_path) \o BASE64_MARK
                          \o b64encode(entry.bytes),
              exc |-> "", warned |-> MimeWarning(abs_path)]

(* Mutant: the result of a local file lacks the data: scheme *)
process_image_path_NoScheme(image_path, fs) ==
    LET local == IF StartsWith(image_path, FILE_PREFIX)
                 THEN DropFirst(image_path, 7) ELSE image_path
        abs_path == Absolute(local)
        entry == FsEntry(fs, abs_path)
    IN  IF StartsWith(image_path, HTTP_PREFIX) \/ StartsWith(image_path, HTTPS_PREFIX)
        THEN [ok |-> TRUE, url |-> image_path, exc |-> "", warned |-> FALSE]
        ELSE IF StartsWith(image_path, DATA_PREFIX)
        THEN [ok |-> TRUE, url |-> image_path, exc |-> "", warned |-> FALSE]
        ELSE IF ~ PathExists(entry)
        THEN [ok |-> FALSE, url |-> << >>, exc |-> "FileNotFoundError", warned |-> FALSE]
        ELSE IF ~ PathIsFile(entry)
        THEN [ok |-> FALSE, url |-> << >>, exc |-> "ValueError", warned |-> FALSE]
        ELSE IF entry.kind = "unreadable"
        THEN [ok |-> FALSE, url |-> << >>, exc |-> "PermissionError",
              warned |-> MimeWarning(abs_path)]
        ELSE [ok |-> TRUE,
              url |-> MimeOf(abs_path) \o BASE64_MARK \o b64encode(entry.bytes),
              exc |-> "", warned |-> MimeWarning(abs_path)]

(* process_image_path.  The result is [ok, url, exc, warned]: the returned  *)
(* string, or the class of the exception raised; warned, whether the        *)
(* warning of line 127 was printed.                                         *)
process_image_path(image_path, fs) ==
    LET local == IF StartsWith(image_path, FILE_PREFIX)
                 THEN DropFirst(image_path, 7) ELSE image_path
        abs_path == Absolute(local)
        entry == FsEntry(fs, abs_path)
    IN  IF StartsWith(image_path, HTTP_PREFIX) \/ StartsWith(image_path, HTTPS_PREFIX)
        THEN [ok |-> TRUE, url |-> image_path, exc |-> "", warned |-> FALSE]
        ELSE IF StartsWith(image_path, DATA_PREFIX)
        THEN [ok |-> TRUE, url |-> image_path, exc |-> "", warned |-> FALSE]
        ELSE IF ~ PathExists(entry)
        THEN [ok |-> FALSE, url |-> << >>, exc |-> "FileNotFoundError", warned |-> FALSE]
        ELSE IF ~ PathIsFile(entry)
        THEN [ok |-> FALSE, url |-> << >>, exc |-> "ValueError", warned |-> FALSE]
        ELSE IF entry.kind = "unreadable"
        THEN [ok |-> FALSE, url |-> << >>, exc |-> "PermissionError",
              warned |-> MimeWarning(abs_path)]
        ELSE [ok |-> TRUE,
              url |-> DATA_PREFIX \o MimeOf(abs_path) \o BASE64_MARK
                          \o b64encode(entry.bytes),
              exc |-> "", warned |-> MimeWarning(abs_path)]

-----------------------------------------------------------------------------
(* Job submitter: create_video_task *)

(* What requests.post can do: raise Timeout, ConnectionError or another     *)
(* exception, or return a response [status, body, id, err, msg]:            *)
(*   body  "undecodable" | "nondict" | "dict"   what response.json() gives  *)
(*   id    "none" | "" | "job-1"                result.get("id")            *)
(*   err   "absent" | "dict_msg" | "dict_nomsg" | "str"   the "error" entry *)
(*   msg   the text of error.message                                        *)
CreateStatuses == { 200, 201, 204, 400, 401, 403, 429, 500 }

CreateResponse(kind, status, body, id, err, msg) ==
    [ kind |-> kind, status |-> status, body |-> body, id |-> id, err |-> err,
      msg |-> msg ]

NO_RESPONSE == CreateResponse("none", 0, "undecodable", "none", "absent", "srv-message")

NetworkFailures ==
    { CreateResponse(k, 0, "undecodable", "none", "absent", "srv-message") :
          k \in {"timeout", "conn", "other"} }

(* Error responses: the body is not JSON, is JSON but no dict, or is a dict *)
(* with or without an "error" entry                                         *)
ErrorResponses(statuses) ==
    { CreateResponse("http", st, b, "none", "absent", "srv-message") :
          st \in statuses, b \in {"undecodable", "nondict", "dict"} }
    \cup { CreateResponse("http", st, "dict", "none", e, "srv-message") :
          st \in statuses, e \in {"dict_nomsg", "str"} }
    \cup { CreateResponse("http", st, "dict", "none", "dict_msg", m) :
          st \in statuses, m \in {"srv-message", "AuthFailed"} }

(* Responses without an "error" entry, with or without a task id *)
PlainResponses(statuses) ==
    { CreateResponse("http", st, b, "none", "absent", "srv-message") :
          st \in statuses, b \in {"undecodable", "nondict"} }
    \cup { CreateResponse("http", st, "dict", id, "absent", "srv-message") :
          st \in statuses, id \in {"none", "", "job-1"} }

CreateResponses ==
    NetworkFailures \cup PlainResponses(CreateStatuses)
        \cup ErrorResponses(CreateStatuses \ {200})

(* error_msg of an error response: "HTTP <status>" unless the body decodes  *)
(* to a dict with an "error" entry                                          *)
ErrorMsg(resp) ==
    LET http == "HTTP " \o ToString(resp.status)
    IN  IF resp.body # "dict" \/ resp.err = "absent" THEN http
        ELSE IF resp.err = "dict_msg" THEN resp.msg
        ELSE IF resp.err = "dict_nomsg" THEN http
        ELSE "srv-detail"

(* Mutant: 429 has no branch of its own and falls to the last one *)
CreateRaised_No429(resp) ==
    IF resp.status # 200 THEN
        IF resp.status = 401 THEN << "AuthFailed" >>
        ELSE IF resp.status = 403 THEN << "PermissionDenied" >>
        ELSE IF resp.status = 400 THEN << "BadParams", ErrorMsg(resp) >>
        ELSE << "CreateFailed", ErrorMsg(resp) >>
    ELSE IF resp.body = "undecodable" THEN << "JSONDecodeError" >>
    ELSE IF resp.body = "nondict" THEN << "AttributeError" >>
    ELSE IF resp.id \in {"none", ""} THEN << "MissingTaskId" >>
    ELSE << >>

(* Mutant: the task id is tested with "is None", an empty one is accepted *)
CreateRaised_AcceptsEmptyId(resp) ==
    IF resp.status # 200 THEN
        IF resp.status = 401 THEN << "AuthFailed" >>
        ELSE IF resp.status = 403 THEN << "PermissionDenied" >>
        ELSE IF resp.status = 429 THEN << "RateLimited" >>
        ELSE IF resp.status = 400 THEN << "BadParams", ErrorMsg(resp) >>
        ELSE << "CreateFailed", ErrorMsg(resp) >>
    ELSE IF resp.body = "undecodable" THEN << "JSONDecodeError" >>
    ELSE IF resp.body = "nondict" THEN << "AttributeError" >>
    ELSE IF resp.id = "none" THEN << "MissingTaskId" >>
    ELSE << >>

(* Mutant: the test of the task id is inverted *)
CreateRaised_InvertedId(resp) ==
    IF resp.status # 200 THEN << "CreateFailed", "HTTP " \o ToString(resp.status) >>
    ELSE IF resp.body # "dict" THEN << "JSONDecodeError" >>
    ELSE IF resp.id \notin {"none", ""} THEN << "MissingTaskId" >>
    ELSE << >>

(* The exception raised inside the try block of create_video_task for an    *)
(* HTTP response, << >> when the task id is returned                        *)
CreateRaised(resp) ==
    IF resp.status # 200 THEN
        IF resp.status = 401 THEN << "AuthFailed" >>
        ELSE IF resp.status = 403 THEN << "PermissionDenied" >>
        ELSE IF resp.status = 429 THEN << "RateLimited" >>
        ELSE IF resp.status = 400 THEN << "BadParams", ErrorMsg(resp) >>
        ELSE << "CreateFailed", ErrorMsg(resp) >>
    ELSE IF resp.body = "undecodable" THEN << "JSONDecodeError" >>
    ELSE IF resp.body = "nondict" THEN << "AttributeError" >>
    ELSE IF resp.id \in {"none", ""} THEN << "MissingTaskId" >>
    ELSE << >>

(* except Exception as e: re-raised as it is when its text names one of    *)
(* three kinds, wrapped otherwise                                           *)
CreateReraise(e) ==
    IF Contains(e, "CreateFailed") \/ Contains(e, "AuthFailed")
           \/ Contains(e, "PermissionDenied")
    THEN e
    ELSE << "CreateFailed" >> \o e

(* The try block and its handlers: [ok, task_id, error] *)
CreateRequest(resp) ==
    IF resp.kind = "timeout" THEN
        [ok |-> FALSE, task_id |-> "", error |-> << "RequestTimeout" >>]
    ELSE IF resp.kind = "conn" THEN
        [ok |-> FALSE, task_id |-> "", error |-> << "ConnectFailed", "ArkServer" >>]
    ELSE IF resp.kind = "other" THEN
        [ok |-> FALSE, task_id |-> "",
         error |-> CreateReraise(<< "RequestException" >>)]
    ELSE IF CreateRaised(resp) # << >> THEN
        [ok |-> FALSE, task_id |-> "", error |-> CreateReraise(CreateRaised(resp))]
    ELSE [ok |-> TRUE, task_id |-> resp.id, error |-> << >>]

(* The loop over image_paths: the exception of the first reference that    *)
(* fails, << >> when all are converted                                      *)
NormalizeError(image_paths, fs) ==
    LET bad == { i \in 1..Len(image_paths) :
                   ~ process_image_path(image_paths[i], fs).ok }
        first == CHOOSE i \in bad : \A j \in bad : i <= j
        exc == process_image_path(image_paths[first], fs).exc
    IN  IF bad = {} THEN << >>
        ELSE IF exc \in {"FileNotFoundError", "ValueError"}
        THEN << "ImageProcessFailed", exc >>
        ELSE << exc >>

(* Mutant: a failed creation request is sent a second time *)
create_video_task_Retry(norm_error, resp) ==
    IF norm_error # << >> THEN
        [ok |-> FALSE, task_id |-> "", error |-> norm_error, posts |-> 0]
    ELSE
        [ok |-> CreateRequest(resp).ok, task_id |-> CreateRequest(resp).task_id,
         error |-> CreateRequest(resp).error,
         posts |-> IF CreateRequest(resp).ok THEN 1 ELSE 2]

(* Mutant: the request is sent before the references are converted *)
create_video_task_PostFirst(norm_error, resp) ==
    [ok |-> norm_error = << >> /\ CreateRequest(resp).ok,
     task_id |-> IF norm_error = << >> THEN CreateRequest(resp).task_id ELSE "",
     error |-> IF norm_error # << >> THEN norm_error ELSE CreateRequest(resp).error,
     posts |-> 1]

(* create_video_task: [ok, task_id, error, posts], posts the number of     *)
(* creation requests it sent.  norm_error is what the loop over            *)
(* image_paths raised, resp what requests.post does when it is reached     *)
create_video_task(norm_error, resp) ==
    IF norm_error # << >> THEN
        [ok |-> FALSE, task_id |-> "", error |-> norm_error, posts |-> 0]
    ELSE
        [ok |-> CreateRequest(resp).ok, task_id |-> CreateRequest(resp).task_id,
         error |-> CreateRequest(resp).error, posts |-> 1]

-----------------------------------------------------------------------------
(* Poll engine: poll_task_status *)

(* What one status read can do: requests.get raises Timeout,                *)
(* ConnectionError or another exception, or returns a response              *)
(* [status, body, state, url, err]:                                         *)
(*   state  result.get("status"), "absent" when there is no such field,     *)
(*          "unhashable" for a JSON array or object, which the lookup       *)
(*          {...}.get(status, status) of line 327 refuses with TypeError    *)
(*   url    "video-url" | "no_url" | "no_content" | "bad_content"           *)
(*   err    the "error" entry of a failed task                              *)
StatusRead(kind, status, body, state, url, err) ==
    [ kind |-> kind, status |-> status, body |-> body, state |-> state,
      url |-> url, err |-> err ]

StatusResponses ==
    { StatusRead(k, 0, "undecodable", "absent", "no_content", "absent") :
          k \in {"timeout", "conn", "other"} }
    \cup { StatusRead("http", st, "undecodable", "absent", "no_content", "absent") :
          st \in {404, 500} }
    \cup { StatusRead("http", 200, b, "absent", "no_content", "absent") :
          b \in {"undecodable", "nondict"} }
    \cup { StatusRead("http", 200, "dict", st, "no_content", "absent") :
          st \in {"queued", "running", "paused", "absent", "unhashable"} }
    \cup { StatusRead("http", 200, "dict", "succeeded", u, "absent") :
          u \in {"video-url", "no_url", "no_content", "bad_content"} }
    \cup { StatusRead("http", 200, "dict", "failed", "no_content", e) :
          e \in {"absent", "dict_msg", "dict_nomsg", "str"} }

(* Ticks a status request can take: it answers at once, after a tick, or    *)
(* runs into the timeout=10 it was given                                    *)
ReadTicks(resp) ==
    IF resp.kind = "timeout" THEN { STATUS_REQUEST_TIMEOUT * TicksPerSecond }
    ELSE { 0, 1, STATUS_REQUEST_TIMEOUT * TicksPerSecond }

(* Class of a status read, as lastRead records it *)
ReadClass(resp) ==
    IF resp.kind # "http" THEN resp.kind
    ELSE IF resp.status # 200 THEN "http"
    ELSE IF resp.body # "dict" THEN resp.body
    ELSE resp.state

TransientClasses == { "http", "timeout", "conn" }
GenericClasses == { "other", "undecodable", "nondict", "unhashable" }
FailedClasses == TransientClasses \cup GenericClasses
TerminalClasses == { "succeeded", "failed" }
NonTerminalClasses == { "queued", "running", "paused", "absent" }

(* Mutant: the truncation to seconds is left out *)
Elapsed_Ticks(ticks) == ticks

(* elapsed = int(time.time() - start_time) *)
Elapsed(ticks) == ticks \div TicksPerSecond

(* Mutant: the limit itself counts as exceeded *)
TimedOut_AtLimit(elapsed, limit) == elapsed >= limit

(* if elapsed > timeout *)
TimedOut(elapsed, limit) == elapsed > limit

(* error_msg of a failed task *)
TaskErrorMsg(resp) ==
    IF resp.err = "dict_msg" THEN "srv-message"
    ELSE IF resp.err = "str" THEN "srv-detail"
    ELSE "UnknownError"

Raise(e, rc) == [ next |-> "raise", retry_count |-> rc, sleep |-> 0, error |-> e ]
(* Mutant: the retry follows the failure without time.sleep(2) *)
Backoff_NoSleep(rc) ==
    [ next |-> "sleep", retry_count |-> rc, sleep |-> 0, error |-> << >> ]

Backoff(rc) ==
    [ next |-> "sleep", retry_count |-> rc, sleep |-> BACKOFF_SECONDS, error |-> << >> ]

(* Mutant: the job-failure error is retried like any other exception *)
PollGenericHandler_RetryAll(e, rc) ==
    IF rc >= max_retries THEN Raise(e, rc) ELSE Backoff(rc + 1)

(* Mutant: every exception the generic clause sees is fatal at once *)
PollGenericHandler_Fatal(e, rc) == Raise(e, rc)

(* except Exception as e *)
PollGenericHandler(e, rc) ==
    IF Contains(e, "TaskFailed") THEN Raise(e, rc)
    ELSE IF rc >= max_retries THEN Raise(e, rc)
    ELSE Backoff(rc + 1)

(* Mutant: the cap is compared with > instead of >= *)
PollTransientHandler_OffByOne(e, rc) ==
    IF rc + 1 > max_retries THEN Raise(e, rc + 1) ELSE Backoff(rc + 1)

(* except requests.exceptions.Timeout / ConnectionError *)
PollTransientHandler(e, rc) ==
    IF rc + 1 >= max_retries THEN Raise(e, rc + 1) ELSE Backoff(rc + 1)

(* if response.status_code != 200: the exception it raises at the cap is    *)
(* raised inside the try block, so the generic handler sees it              *)
PollNon200(resp, rc) ==
    IF rc + 1 >= max_retries
    THEN PollGenericHandler(
             << "StatusQueryFailed", "HTTP " \o ToString(resp.status) >>, rc + 1)
    ELSE Backoff(rc + 1)

(* A 200 response: retry_count = 0, then the body is decoded and inspected *)
Poll200(resp, interval) ==
    IF resp.body = "undecodable" THEN PollGenericHandler(<< "JSONDecodeError" >>, 0)
    ELSE IF resp.body = "nondict" THEN PollGenericHandler(<< "AttributeError" >>, 0)
    ELSE IF resp.state = "unhashable" THEN PollGenericHandler(<< "TypeError" >>, 0)
    ELSE IF resp.state = "succeeded" THEN
        [ next |-> "return", retry_count |-> 0, sleep |-> 0, error |-> << >> ]
    ELSE IF resp.state = "failed" THEN
        PollGenericHandler(<< "TaskFailed", TaskErrorMsg(resp) >>, 0)
    ELSE [ next |-> "sleep", retry_count |-> 0, sleep |-> interval, error |-> << >> ]

(* Mutant: retry_count = 0 of line 321 is left out, a read that yields a     *)
(* status keeps the count                                                   *)
PollIteration_NoReset(resp, rc, interval) ==
    IF resp.kind = "timeout" THEN PollTransientHandler(<< "StatusQueryTimeout" >>, rc)
    ELSE IF resp.kind = "conn" THEN PollTransientHandler(<< "ConnectFailed", "Server" >>, rc)
    ELSE IF resp.kind = "other" THEN PollGenericHandler(<< "RequestException" >>, rc)
    ELSE IF resp.status # 200 THEN PollNon200(resp, rc)
    ELSE IF Poll200(resp, interval).next = "sleep"
    THEN [ Poll200(resp, interval) EXCEPT !.retry_count = rc + @ ]
    ELSE Poll200(resp, interval)

(* The body of one iteration after the timeout check: the request and what  *)
(* follows it, up to the sleep, the return or the exception that leaves     *)
(* poll_task_status                                                         *)
PollIteration(resp, rc, interval) ==
    IF resp.kind = "timeout" THEN PollTransientHandler(<< "StatusQueryTimeout" >>, rc)
    ELSE IF resp.kind = "conn" THEN PollTransientHandler(<< "ConnectFailed", "Server" >>, rc)
    ELSE IF resp.kind = "other" THEN PollGenericHandler(<< "RequestException" >>, rc)
    ELSE IF resp.status # 200 THEN PollNon200(resp, rc)
    ELSE Poll200(resp, interval)

-----------------------------------------------------------------------------
(* Artifact downloader: download_video, download_image *)

(* Mutant: the single video is saved under an indexed name *)
PathStr_Indexed(o) == o.parent \o "/" \o o.stem \o "_1" \o o.suffix

(* Path(args.output) as [parent, stem, suffix] *)
PathStr(o) == o.parent \o "/" \o o.stem \o o.suffix

(* parent / f"{stem}_{i}{suffix}" *)
IndexedPath(o, i) == o.parent \o "/" \o o.stem \o "_" \o ToString(i) \o o.suffix

(* How a download can end:                                                  *)
(*   timeout, http_error, conn   the GET fails before the body is read      *)
(*   mkdir_fail                  parent.mkdir raises OSError                *)
(*   bad_length                  int(content-length) raises ValueError      *)
(*   open_fail                   open(output_path, 'wb') raises OSError     *)
(*   write_fail, stream_fail     f.write / iter_content raises mid-stream   *)
(*   ok                          every chunk written                        *)
DownloadOutcomes ==
    { "timeout", "http_error", "conn", "mkdir_fail", "bad_length", "open_fail",
      "write_fail", "stream_fail", "ok" }

DownloadError(outcome) ==
    IF outcome = "ok" THEN << >>
    ELSE IF outcome = "timeout" THEN << "DownloadTimeout" >>
    ELSE IF outcome = "http_error" THEN << "DownloadFailed", "HTTP 404" >>
    ELSE IF outcome \in {"mkdir_fail", "open_fail", "write_fail"}
    THEN << "WriteFailed", "OSError" >>
    ELSE IF outcome = "bad_length" THEN << "DownloadFailed", "ValueError" >>
    ELSE IF outcome = "conn" THEN << "DownloadFailed", "ConnectionError" >>
    ELSE << "DownloadFailed", "ChunkedEncodingError" >>

WithFile(fl, path, st) ==
    [ q \in DOMAIN fl \cup {path} |-> IF q = path THEN st ELSE fl[q] ]

(* Mutant: the directory is made and the file opened before the GET *)
download_OpenFirst(outcome, o, path, ds, fl) ==
    [ error |-> DownloadError(outcome),
      dirs |-> IF outcome = "mkdir_fail" THEN ds ELSE ds \cup {o.parent},
      files |-> IF outcome \in {"mkdir_fail", "open_fail"} THEN fl
                ELSE IF outcome = "ok" THEN WithFile(fl, path, "complete")
                ELSE WithFile(fl, path, "partial") ]

(* download_video / download_image: [error, dirs, files] after the call *)
download(outcome, o, path, ds, fl) ==
    [ error |-> DownloadError(outcome),
      dirs |-> IF outcome \in {"timeout", "http_error", "conn", "mkdir_fail"}
               THEN ds ELSE ds \cup {o.parent},
      files |-> IF outcome \in {"write_fail", "stream_fail"}
                THEN WithFile(fl, path, "partial")
                ELSE IF outcome = "ok" THEN WithFile(fl, path, "complete")
                ELSE fl ]

-----------------------------------------------------------------------------
(* generate_video.py: main *)

VIDEO_OUTPUT == [ parent |-> ".", stem |-> "generated_video", suffix |-> ".mp4" ]

VideoOutputs == { VIDEO_OUTPUT }

(* validate_duration(duration, model), pro: "1-5-pro" in model *)
validate_duration(duration, pro) ==
    IF pro THEN ~ (duration < 4 \/ duration > 12)
    ELSE ~ (duration < 2 \/ duration > 12)

PollIntervalInputs ==
    { MIN_POLL_INTERVAL - 1, MIN_POLL_INTERVAL, DEFAULT_POLL_INTERVAL,
      MAX_POLL_INTERVAL, MAX_POLL_INTERVAL + 1 }
TimeoutInputs == { MIN_TIMEOUT - 1, MIN_TIMEOUT, MAX_TIMEOUT + 1 }

(* The --image arguments and the files they may name *)
REF_HTTP == HTTP_PREFIX \o << "u" >>
REF_HTTPS == HTTPS_PREFIX \o << "u" >>
REF_DATA == DATA_PREFIX \o << "x" >>
REF_LOCAL == << "a", ".", "P", "N", "G" >>
REF_FILE_URL == FILE_PREFIX \o << "/", "t", "/", "b" >>

ImageRefs == { REF_HTTP, REF_HTTPS, REF_DATA, REF_LOCAL, REF_FILE_URL }

ImagePathInputs == UNION { [ 1..n -> ImageRefs ] : n \in 0..MaxImages }

LocalPaths == { Absolute(REF_LOCAL), << "/", "t", "/", "b" >> }

FileKinds == { "missing", "dir", "file", "unreadable" }

FileBytes(path) == IF path = Absolute(REF_LOCAL) THEN << 77 >> ELSE << 1, 2, 255, 4 >>

FileSystems ==
    { [ q \in LocalPaths |-> [ kind |-> k[q], bytes |-> FileBytes(q) ] ] :
          k \in [ LocalPaths -> FileKinds ] }

(* No call of process_image_path has been made *)
NOT_CALLED == [ ok |-> FALSE, url |-> << >>, exc |-> "not_called", warned |-> FALSE ]

Exit(code, e) ==
    /\ pc' = "exit"
    /\ exit_code' = code
    /\ error' = e

Init ==
    /\ pc = "start"
    /\ exit_code = -1
    /\ error = << >>
    /\ timeout = DEFAULT_TIMEOUT
    /\ poll_interval = DEFAULT_POLL_INTERVAL
    /\ output = VIDEO_OUTPUT
    /\ posts = 0
    /\ create_resp = NO_RESPONSE
    /\ task_id = ""
    /\ now = 0
    /\ retry_count = 0
    /\ sleep_secs = 0
    /\ result = "unset"
    /\ lastRead = "unread"
    /\ consecFailed = 0
    /\ consecTransient = 0
    /\ gets = 0
    /\ waits = 0
    /\ anyFailed = FALSE
    /\ data = << >>
    /\ idx = 0
    /\ dirs = {}
    /\ files = << >>
    /\ dl_log = << >>
    /\ norm_input = << >>
    /\ norm_fs = << >>
    /\ norm_out = NOT_CALLED
    /\ norm_again = NOT_CALLED

(* main, lines 519-535: the arguments are parsed and validated *)
MainValidate ==
    /\ pc = "start"
    /\ \E api_key \in BOOLEAN, duration \in {1, 2, 5, 13}, pro \in BOOLEAN,
          p \in PollIntervalInputs, t \in TimeoutInputs, o \in VideoOutputs :
          /\ poll_interval' = p
          /\ timeout' = t
          /\ output' = o
          /\ IF ~ api_key THEN Exit(1, << >>)
             ELSE IF ~ validate_duration(duration, pro) THEN Exit(1, << >>)
             ELSE IF p < MIN_POLL_INTERVAL \/ p > MAX_POLL_INTERVAL THEN Exit(1, << >>)
             ELSE IF t < MIN_TIMEOUT \/ t > MAX_TIMEOUT THEN Exit(1, << >>)
             ELSE pc' = "create" /\ UNCHANGED << exit_code, error >>
    /\ UNCHANGED << createVars, pollVars, imageVars, fsVars >>
    /\ UNCHANGED normVars

(* main, Step 1: create_video_task and the except clause of main *)
MainCreate ==
    /\ pc = "create"
    /\ \E image_paths \in ImagePathInputs, fs \in FileSystems :
       \E norm_error \in { NormalizeError(image_paths, fs) } :
       \E resp \in IF norm_error = << >> THEN CreateResponses ELSE { NO_RESPONSE } :
          LET r == create_video_task(norm_error, resp)
          IN  /\ posts' = posts + r.posts
              /\ create_resp' = IF r.posts = 0 THEN create_resp ELSE resp
              /\ task_id' = r.task_id
              /\ IF r.ok THEN pc' = "poll_start" /\ UNCHANGED << exit_code, error >>
                 ELSE Exit(1, r.error)
    /\ UNCHANGED << argVars, pollVars, imageVars, fsVars >>
    /\ UNCHANGED normVars

(* poll_task_status, lines 282-284 *)
PollStart ==
    /\ pc = "poll_start"
    /\ now' = 0
    /\ retry_count' = 0
    /\ pc' = "poll_top"
    /\ UNCHANGED << exit_code, error, argVars, createVars, sleep_secs, result, lastRead, consecFailed, consecTransient,
                    countVars, imageVars, fsVars >>
    /\ UNCHANGED normVars

(* poll_task_status, lines 291-300: the top of the loop *)
PollCheckTimeout ==
    /\ pc = "poll_top"
    /\ IF TimedOut(Elapsed(now), timeout)
       THEN Exit(1, << "TaskTimeout" >>)
       ELSE pc' = "poll_request" /\ UNCHANGED << exit_code, error >>
    /\ UNCHANGED << argVars, createVars, pollVars, imageVars, fsVars >>
    /\ UNCHANGED normVars

(* poll_task_status, lines 302-372 but for the sleeps: one status request   *)
(* and the handling of its outcome                                          *)
PollStatusRead ==
    /\ pc = "poll_request"
    /\ \E resp \in StatusResponses :
       \E d \in ReadTicks(resp) :
          LET r == PollIteration(resp, retry_count, poll_interval)
          IN  /\ now' = now + d
              /\ retry_count' = r.retry_count
              /\ sleep_secs' = r.sleep
              /\ lastRead' = ReadClass(resp)
              /\ consecFailed' = IF ReadClass(resp) \in FailedClasses
                                 THEN Min(consecFailed + 1, FailCap) ELSE 0
              /\ consecTransient' = IF ReadClass(resp) \in TransientClasses
                                    THEN Min(consecTransient + 1, FailCap) ELSE 0
              /\ gets' = Min(gets + 1, MaxReads)
              /\ waits' = IF ReadClass(resp) \in NonTerminalClasses
                          THEN Min(waits + 1, MaxReads) ELSE waits
              /\ anyFailed' = (anyFailed \/ ReadClass(resp) \in FailedClasses)
              /\ result' = IF r.next = "return" THEN resp.url ELSE result
              /\ IF r.next = "raise" THEN Exit(1, r.error)
                 ELSE /\ pc' = IF r.next = "return" THEN "download" ELSE "poll_sleep"
                      /\ UNCHANGED << exit_code, error >>
    /\ UNCHANGED << argVars, createVars, imageVars, fsVars >>
    /\ UNCHANGED normVars

(* Mutant: start_time is taken anew after each sleep, elapsed never adds up *)
PollSleep_ResetsClock ==
    /\ pc = "poll_sleep"
    /\ now' = 0
    /\ sleep_secs' = 0
    /\ pc' = "poll_top"
    /\ UNCHANGED << exit_code, error, argVars, createVars, retry_count, result,
                    lastRead, consecFailed, consecTransient, countVars, imageVars,
                    fsVars >>
    /\ UNCHANGED normVars

(* Mutant: after a backoff the request is repeated without the timeout     *)
(* check                                                                    *)
PollSleep_NoRecheck ==
    /\ pc = "poll_sleep"
    /\ now' = now + sleep_secs * TicksPerSecond
    /\ sleep_secs' = 0
    /\ pc' = IF retry_count > 0 THEN "poll_request" ELSE "poll_top"
    /\ UNCHANGED << exit_code, error, argVars, createVars, retry_count, result,
                    lastRead, consecFailed, consecTransient, countVars, imageVars,
                    fsVars >>
    /\ UNCHANGED normVars

(* time.sleep(poll_interval) or time.sleep(2), then back to the top *)
PollSleep ==
    /\ pc = "poll_sleep"
    /\ now' = now + sleep_secs * TicksPerSecond
    /\ sleep_secs' = 0
    /\ pc' = "poll_top"
    /\ UNCHANGED << exit_code, error, argVars, createVars, retry_count, result, lastRead, consecFailed, consecTransient,
                    countVars, imageVars, fsVars >>
    /\ UNCHANGED normVars

(* main, Step 3: the video URL is taken from the result and downloaded *)
MainDownload ==
    /\ pc = "download"
    /\ IF result = "bad_content" THEN
           Exit(1, << "AttributeError" >>) /\ UNCHANGED fsVars
       ELSE IF result # "video-url" THEN
           Exit(1, << "MissingVideoUrl" >>) /\ UNCHANGED fsVars
       ELSE \E outcome \in DownloadOutcomes :
           LET r == download(outcome, output, PathStr(output), dirs, files)
           IN  /\ dirs' = r.dirs
               /\ files' = r.files
               /\ dl_log' = Append(dl_log, << 1, PathStr(output), outcome, result >>)
               /\ IF r.error = << >> THEN Exit(0, << >>) ELSE Exit(1, r.error)
    /\ UNCHANGED << argVars, createVars, pollVars, imageVars >>
    /\ UNCHANGED normVars

(* Mutant: KeyboardInterrupt is handled by the clause of the other errors *)
MainInterrupt_AsError ==
    /\ pc \in { "create", "poll_start", "poll_top", "poll_request", "poll_sleep",
                "download" }
    /\ Exit(1, << >>)
    /\ UNCHANGED << argVars, createVars, pollVars, imageVars, fsVars >>
    /\ UNCHANGED normVars

(* except KeyboardInterrupt: the user interrupts the try block of main *)
MainInterrupt ==
    /\ pc \in { "create", "poll_start", "poll_top", "poll_request", "poll_sleep",
                "download" }
    /\ Exit(130, << >>)
    /\ UNCHANGED << argVars, createVars, pollVars, imageVars, fsVars >>
    /\ UNCHANGED normVars

Next ==
    \/ MainValidate
    \/ MainCreate
    \/ PollStart
    \/ PollCheckTimeout
    \/ PollStatusRead
    \/ PollSleep
    \/ MainDownload
    \/ MainInterrupt

Spec == Init /\ [][Next]_vars

(* The sequential program goes on: a status request returns or fails within *)
(* its timeout=10, a time.sleep ends, and the steps between them are taken. *)
(* Nothing is assumed of KeyboardInterrupt.                                 *)
PollProgress ==
    /\ WF_vars(PollStart)
    /\ WF_vars(PollCheckTimeout)
    /\ WF_vars(PollStatusRead)
    /\ WF_vars(PollSleep)

SpecProgress == Init /\ [][Next]_vars /\ PollProgress

-----------------------------------------------------------------------------
(* generate_image.py *)

IMAGE_OUTPUT == [ parent |-> ".", stem |-> "generated_image", suffix |-> ".png" ]

ImageOutputs == { IMAGE_OUTPUT, [ parent |-> "out/a", stem |-> "pic", suffix |-> "" ] }

(* result["data"]: entry k carries its own url or none ("") *)
ArtifactUrl(k) == "img-" \o ToString(k)

DataInputs ==
    UNION { { [ k \in 1..n |-> IF k \in present THEN ArtifactUrl(k) ELSE "" ] :
                present \in SUBSET (1..n) } : n \in 0..MaxData }

(* generate_image, lines 178-191: the references are converted *)
GenerateNormalizeError(image_paths, fs) == NormalizeError(image_paths, fs)

(* generate_image, lines 234-259: the exception raised in the try block,    *)
(* << >> when response.json() is returned                                   *)
GenerateRaised(resp) ==
    IF resp.status # 200 THEN
        IF resp.status = 401 THEN << "AuthFailed" >>
        ELSE IF resp.status = 403 THEN << "PermissionDenied" >>
        ELSE IF resp.status = 429 THEN << "RateLimited" >>
        ELSE IF resp.status = 400 THEN << "BadParams", ErrorMsg(resp) >>
        ELSE << "GenerateFailed", ErrorMsg(resp) >>
    ELSE IF resp.body = "undecodable" THEN << "JSONDecodeError" >>
    ELSE << >>

(* generate_image, lines 265-268 *)
GenerateReraise(e) ==
    IF Contains(e, "GenerateFailed") \/ Contains(e, "AuthFailed")
           \/ Contains(e, "PermissionDenied")
    THEN e
    ELSE << "GenerateFailed" >> \o e

(* generate_image: [ok, error, posts] *)
generate_image(norm_error, resp) ==
    IF norm_error # << >> THEN [ok |-> FALSE, error |-> norm_error, posts |-> 0]
    ELSE IF resp.kind = "timeout" THEN
        [ok |-> FALSE, error |-> << "RequestTimeout" >>, posts |-> 1]
    ELSE IF resp.kind = "conn" THEN
        [ok |-> FALSE, error |-> << "ConnectFailed", "ArkServer" >>, posts |-> 1]
    ELSE IF resp.kind = "other" THEN
        [ok |-> FALSE, error |-> GenerateReraise(<< "RequestException" >>), posts |-> 1]
    ELSE IF GenerateRaised(resp) # << >> THEN
        [ok |-> FALSE, error |-> GenerateReraise(GenerateRaised(resp)), posts |-> 1]
    ELSE [ok |-> TRUE, error |-> << >>, posts |-> 1]

GenerateResponses ==
    NetworkFailures
        \cup { CreateResponse("http", 200, b, "none", "absent", "srv-message") :
                 b \in {"undecodable", "nondict", "dict"} }
        \cup ErrorResponses(CreateStatuses \ {200})

(* Mutant: enumerate(data) counts from 0 *)
ArtifactIndex_FromZero(consumed) == consumed

(* enumerate(data, 1): the index i of the entry after `consumed` entries *)
ArtifactIndex(consumed) == consumed + 1

InitImage ==
    /\ pc = "start"
    /\ exit_code = -1
    /\ error = << >>
    /\ timeout = DEFAULT_TIMEOUT
    /\ poll_interval = DEFAULT_POLL_INTERVAL
    /\ output = IMAGE_OUTPUT
    /\ posts = 0
    /\ create_resp = NO_RESPONSE
    /\ task_id = ""
    /\ now = 0
    /\ retry_count = 0
    /\ sleep_secs = 0
    /\ result = "unset"
    /\ lastRead = "unread"
    /\ consecFailed = 0
    /\ consecTransient = 0
    /\ gets = 0
    /\ waits = 0
    /\ anyFailed = FALSE
    /\ data = << >>
    /\ idx = 0
    /\ dirs = {}
    /\ files = << >>
    /\ dl_log = << >>
    /\ norm_input = << >>
    /\ norm_fs = << >>
    /\ norm_out = NOT_CALLED
    /\ norm_again = NOT_CALLED

(* main, lines 414-423: the arguments are parsed and validated *)
ImgValidate ==
    /\ pc = "start"
    /\ \E api_key \in BOOLEAN, sequential \in BOOLEAN, max_images \in {0, 4},
          o \in ImageOutputs :
          /\ output' = o
          /\ IF ~ api_key THEN Exit(1, << >>)
             ELSE IF sequential /\ max_images < 1 THEN Exit(1, << >>)
             ELSE pc' = "generate" /\ UNCHANGED << exit_code, error >>
    /\ UNCHANGED << timeout, poll_interval, createVars, pollVars, imageVars, fsVars >>
    /\ UNCHANGED normVars

(* main, lines 433-448: generate_image, then data is taken from the result *)
ImgGenerate ==
    /\ pc = "generate"
    /\ \E image_paths \in ImagePathInputs, fs \in FileSystems :
       \E norm_error \in { GenerateNormalizeError(image_paths, fs) } :
       \E resp \in IF norm_error = << >> THEN GenerateResponses ELSE { NO_RESPONSE } :
       \E d \in IF resp.status = 200 /\ resp.body = "dict" THEN DataInputs ELSE { << >> } :
          LET r == generate_image(norm_error, resp)
          IN  /\ posts' = posts + r.posts
              /\ create_resp' = IF r.posts = 0 THEN create_resp ELSE resp
              /\ IF ~ r.ok THEN Exit(1, r.error) /\ data' = data
                 ELSE IF resp.body = "nondict" THEN
                     Exit(1, << "AttributeError" >>) /\ data' = data
                 ELSE IF d = << >> THEN Exit(1, << "MissingData" >>) /\ data' = d
                 ELSE /\ pc' = "save"
                      /\ data' = d
                      /\ UNCHANGED << exit_code, error >>
    /\ idx' = 0
    /\ UNCHANGED << argVars, task_id, pollVars, fsVars >>
    /\ UNCHANGED normVars

(* main, lines 453-474: the single image *)
ImgSaveSingle ==
    /\ pc = "save"
    /\ Len(data) = 1
    /\ idx' = 1
    /\ IF data[1] = "" THEN Exit(1, << "MissingUrl" >>) /\ UNCHANGED fsVars
       ELSE \E outcome \in DownloadOutcomes :
           LET r == download(outcome, output, PathStr(output), dirs, files)
           IN  /\ dirs' = r.dirs
               /\ files' = r.files
               /\ dl_log' = Append(dl_log, << 1, PathStr(output), outcome, data[1] >>)
               /\ IF r.error = << >> THEN Exit(0, << >>) ELSE Exit(1, r.error)
    /\ UNCHANGED << argVars, createVars, pollVars, data >>
    /\ UNCHANGED normVars

(* main, lines 482-490: one iteration of the loop over data *)
ImgSaveNext ==
    /\ pc = "save"
    /\ Len(data) > 1
    /\ idx < Len(data)
    /\ idx' = idx + 1
    /\ IF data[idx + 1] = "" THEN UNCHANGED << pc, exit_code, error, fsVars >>
       ELSE \E outcome \in DownloadOutcomes :
           LET i == ArtifactIndex(idx)
               r == download(outcome, output, IndexedPath(output, i), dirs, files)
           IN  /\ dirs' = r.dirs
               /\ files' = r.files
               /\ dl_log' = Append(dl_log,
                                   << i, IndexedPath(output, i), outcome, data[idx + 1] >>)
               /\ IF r.error = << >> THEN UNCHANGED << pc, exit_code, error >>
                  ELSE Exit(1, r.error)
    /\ UNCHANGED << argVars, createVars, pollVars, data >>
    /\ UNCHANGED normVars

(* main, lines 492-502: the loop is over *)
ImgSaveDone ==
    /\ pc = "save"
    /\ Len(data) > 1
    /\ idx = Len(data)
    /\ Exit(0, << >>)
    /\ UNCHANGED << argVars, createVars, pollVars, imageVars, fsVars >>
    /\ UNCHANGED normVars

(* except KeyboardInterrupt *)
ImgInterrupt ==
    /\ pc \in { "generate", "save" }
    /\ Exit(130, << >>)
    /\ UNCHANGED << argVars, createVars, pollVars, imageVars, fsVars >>
    /\ UNCHANGED normVars

NextImage ==
    \/ ImgValidate
    \/ ImgGenerate
    \/ ImgSaveSingle
    \/ ImgSaveNext
    \/ ImgSaveDone
    \/ ImgInterrupt

SpecImage == InitImage /\ [][NextImage]_vars

-----------------------------------------------------------------------------
(* process_image_path on its own: every input below on every file system    *)
(* that gives its path one of the four kinds, then once more on what the    *)
(* first call returned                                                      *)

(* Strings that start with http:// or https:// *)
RemoteInputs ==
    { << "h", "t", "t", "p", ":", "/", "/", "u" >>,
      << "h", "t", "t", "p", "s", ":", "/", "/", "u" >>,
      << "h", "t", "t", "p", ":", "/", "/" >>,
      << "h", "t", "t", "p", "s", ":", "/", "/", "a", ".", "p", "n", "g" >> }

(* Strings that start with data: *)
InlineInputs ==
    { << "d", "a", "t", "a", ":", "x" >>,
      << "d", "a", "t", "a", ":" >>,
      << "d", "a", "t", "a", ":", "i", "m", "a", "g", "e", "/", "p", "n", "g", ";", "b", "a", "s", "e", "6", "4", ",", "T", "Q", "=", "=" >> }

(* Strings that only resemble a URL: the prefix test is exact *)
NearMissInputs ==
    { << "H", "T", "T", "P", ":", "/", "/", "u" >>,
      << "h", "t", "t", "p", ":", "/", "u" >>,
      << "d", "a", "t", "a" >>,
      << "f", "i", "l", "e", ":", "/", "a", ".", "p", "n", "g" >> }

(* file:// in front of an absolute path, a relative one, a URL *)
FileUrlInputs ==
    { << "f", "i", "l", "e", ":", "/", "/", "/", "t", "/", "b", ".", "g", "i", "f" >>,
      << "f", "i", "l", "e", ":", "/", "/", "a", ".", "p", "n", "g" >>,
      << "f", "i", "l", "e", ":", "/", "/", "h", "t", "t", "p", ":", "/", "/", "u" >> }

(* Plain paths: the extensions of the table in either case, others, none *)
LocalInputs ==
    { << "a", ".", "P", "N", "G" >>,
      << "a", ".", "j", "p", "g" >>,
      << "a", ".", "J", "P", "E", "G" >>,
      << "a", ".", "g", "i", "f" >>,
      << "a", ".", "w", "e", "b", "p" >>,
      << "a", ".", "b", "m", "p" >>,
      << "a", ".", "t", "i", "f", "f" >>,
      << "a", ".", "T", "I", "F" >>,
      << "a", ".", "H", "E", "I", "C" >>,
      << "a", ".", "t", "x", "t" >>,
      << "a" >>,
      << ".", "p", "n", "g" >>,
      << "a", "." >>,
      << "/", "t", "/", "a", ".", "t", "a", "r", ".", "g", "z" >>,
      << "/", "t", "/", "x", ".", "J", "p", "g" >> }

NormalizeInputs ==
    RemoteInputs \cup InlineInputs \cup NearMissInputs \cup FileUrlInputs
        \cup LocalInputs

(* Contents of the file a path names *)
ByteInputs == { << >>, << 77 >>, << 1, 2, 255, 4 >> }

(* The path process_image_path looks at when image_path is taken as local *)
LocalPathOf(image_path) ==
    Absolute(IF StartsWith(image_path, FILE_PREFIX)
             THEN DropFirst(image_path, 7) ELSE image_path)

NormalizeFileSystems(image_path) ==
    { [ q \in { LocalPathOf(image_path) } |-> [ kind |-> k, bytes |-> b ] ] :
          k \in FileKinds, b \in ByteInputs }

InitNormalize ==
    /\ pc = "normalize"
    /\ exit_code = -1
    /\ error = << >>
    /\ timeout = DEFAULT_TIMEOUT
    /\ poll_interval = DEFAULT_POLL_INTERVAL
    /\ output = VIDEO_OUTPUT
    /\ posts = 0
    /\ create_resp = NO_RESPONSE
    /\ task_id = ""
    /\ now = 0
    /\ retry_count = 0
    /\ sleep_secs = 0
    /\ result = "unset"
    /\ lastRead = "unread"
    /\ consecFailed = 0
    /\ consecTransient = 0
    /\ gets = 0
    /\ waits = 0
    /\ anyFailed = FALSE
    /\ data = << >>
    /\ idx = 0
    /\ dirs = {}
    /\ files = << >>
    /\ dl_log = << >>
    /\ norm_input \in NormalizeInputs
    /\ norm_fs \in NormalizeFileSystems(norm_input)
    /\ norm_out = NOT_CALLED
    /\ norm_again = NOT_CALLED

(* processed_url = process_image_path(img_path) *)
NormalizeCall ==
    /\ pc = "normalize"
    /\ norm_out' = process_image_path(norm_input, norm_fs)
    /\ pc' = IF norm_out'.ok THEN "normalize_again" ELSE "exit"
    /\ UNCHANGED << exit_code, error, argVars, createVars, pollVars, imageVars,
                    fsVars, norm_input, norm_fs, norm_again >>

(* process_image_path(processed_url) *)
NormalizeAgain ==
    /\ pc = "normalize_again"
    /\ norm_again' = process_image_path(norm_out.url, norm_fs)
    /\ pc' = "exit"
    /\ UNCHANGED << exit_code, error, argVars, createVars, pollVars, imageVars,
                    fsVars, norm_input, norm_fs, norm_out >>

NextNormalize ==
    \/ NormalizeCall
    \/ NormalizeAgain

SpecNormalize == InitNormalize /\ [][NextNormalize]_vars

-----------------------------------------------------------------------------
(* download_video / download_image on their own: one call, for each output  *)
(* path, on a file system where the parent directory and the destination    *)
(* file exist already or do not ("old": a file written before the call)     *)

DownloadOutputs ==
    ImageOutputs \cup
        { VIDEO_OUTPUT, [ parent |-> "clips", stem |-> "v", suffix |-> ".mp4" ] }

(* The file systems a call can meet: the working directory exists, the      *)
(* parent of the destination may, and in an existing parent the destination *)
(* or another file may                                                      *)
DownloadFileSystems(o) ==
    { [ dirs |-> d, files |-> f ] :
        d \in { {"."}, {".", o.parent} },
        f \in { << >>,
                WithFile(<< >>, PathStr(o), "old"),
                WithFile(<< >>, o.parent \o "/other", "old") } }
      \ { x \in [ dirs : { {"."} }, files : { WithFile(<< >>, PathStr(o), "old"),
                                             WithFile(<< >>, o.parent \o "/other", "old") } ] :
            o.parent # "." }

InitDownload ==
    /\ pc = "download"
    /\ exit_code = -1
    /\ error = << >>
    /\ timeout = DEFAULT_TIMEOUT
    /\ poll_interval = DEFAULT_POLL_INTERVAL
    /\ output \in DownloadOutputs
    /\ posts = 0
    /\ create_resp = NO_RESPONSE
    /\ task_id = ""
    /\ now = 0
    /\ retry_count = 0
    /\ sleep_secs = 0
    /\ result = "unset"
    /\ lastRead = "unread"
    /\ consecFailed = 0
    /\ consecTransient = 0
    /\ gets = 0
    /\ waits = 0
    /\ anyFailed = FALSE
    /\ data = << >>
    /\ idx = 0
    /\ \E x \in DownloadFileSystems(output) : dirs = x.dirs /\ files = x.files
    /\ dl_log = << >>
    /\ norm_input = << >>
    /\ norm_fs = << >>
    /\ norm_out = NOT_CALLED
    /\ norm_again = NOT_CALLED

(* download_video(video_url, output_path), download_image(url, output_path) *)
DownloadCall ==
    /\ pc = "download"
    /\ \E outcome \in DownloadOutcomes :
          LET r == download(outcome, output, PathStr(output), dirs, files)
          IN  /\ dirs' = r.dirs
              /\ files' = r.files
              /\ error' = r.error
              /\ dl_log' = Append(dl_log, << 1, PathStr(output), outcome, "url" >>)
    /\ pc' = "exit"
    /\ UNCHANGED << exit_code, argVars, createVars, pollVars, imageVars, normVars >>

NextDownload == DownloadCall

SpecDownload == InitDownload /\ [][NextDownload]_vars

-----------------------------------------------------------------------------
(* Properties of generate_video.py, checked under Spec *)

PollPcs == { "poll_start", "poll_top", "poll_request", "poll_sleep" }

(* The message poll_task_status raises at the cap for a transient class *)
ReadErrorOf(class) ==
    IF class = "http" THEN "StatusQueryFailed"
    ELSE IF class = "timeout" THEN "StatusQueryTimeout"
    ELSE "ConnectFailed"

ReadErrors == { "StatusQueryFailed", "StatusQueryTimeout", "ConnectFailed" }

HasError(tok) == Len(error) > 0 /\ error[1] = tok

(* C1: after two transient status-read failures in a row (non-200, timeout,  *)
(* connection failure, in any mix, nothing else failed since the last good   *)
(* read) the engine has not raised a read error, and a successful read that  *)
(* follows resets the counter and does not abort; after three in a row the   *)
(* engine has aborted with the error of the class of the third failure.      *)
C1_RetryCap ==
    /\ [](consecTransient = 2 /\ consecFailed = 2
            => ~ (exit_code = 1 /\ Len(error) > 0 /\ error[1] \in ReadErrors))
    /\ [](consecTransient >= 3
            => pc = "exit" /\ exit_code = 1 /\ HasError(ReadErrorOf(lastRead)))
    /\ [][ (pc = "poll_request" /\ consecTransient = 2 /\ consecFailed = 2
              /\ lastRead' \in NonTerminalClasses \cup TerminalClasses)
           => (retry_count' = 0 /\ (exit_code' = 1 => lastRead' = "failed")) ]_vars

C1_Witness ==
    consecTransient = 3 /\ lastRead = "timeout" /\ HasError("StatusQueryTimeout")

(* C2: once a status of succeeded or failed has been read, the engine is     *)
(* never again at a status request or a sleep: failed has raised the         *)
(* job-failure error, succeeded has returned the result.                     *)
C2_TerminalFinality ==
    lastRead \in TerminalClasses =>
        /\ pc \in {"download", "exit"}
        /\ sleep_secs = 0
        /\ lastRead = "failed" => (pc = "exit" /\ exit_code = 1 /\ HasError("TaskFailed"))
        /\ lastRead = "succeeded" =>
               (result # "unset" /\ ~ HasError("TaskFailed") /\ ~ HasError("TaskTimeout"))

C2_Witness == lastRead = "failed" /\ pc = "exit" /\ HasError("TaskFailed")

(* C3: the engine raises TimeoutError at an elapsed time of at least         *)
(* timeout and less than timeout + poll_interval + 3 x 2 s of backoff + one  *)
(* 10 s request timeout.                                                     *)
C3_TimeoutBoundary ==
    (pc = "exit" /\ HasError("TaskTimeout")) =>
        /\ now >= timeout * TicksPerSecond
        /\ now < (timeout + poll_interval + max_retries * BACKOFF_SECONDS
                    + STATUS_REQUEST_TIMEOUT) * TicksPerSecond

C3_Witness ==
    /\ pc = "exit" /\ HasError("TaskTimeout")
    /\ now > (timeout + STATUS_REQUEST_TIMEOUT) * TicksPerSecond

(* C4 as stated: no status request starts when more than timeout seconds     *)
(* have elapsed.                                                             *)
C4_Original == pc = "poll_request" => now <= timeout * TicksPerSecond

(* C4, amended: no status request starts when the elapsed time truncated to  *)
(* whole seconds exceeds timeout, that is once timeout + 1 seconds or more   *)
(* have elapsed.                                                             *)
C4_CheckBeforeRequest == pc = "poll_request" => now < (timeout + 1) * TicksPerSecond

C4_Witness == pc = "poll_request" /\ now > timeout * TicksPerSecond

(* C5 as stated: a status-read error outside the transient classes aborts    *)
(* the engine at once.                                                       *)
C5_Original == lastRead \in GenericClasses => pc = "exit"

(* C5, amended: a status-read error outside the transient classes is fatal   *)
(* only when retry_count has already reached max_retries; otherwise the      *)
(* counter is incremented (from zero for a 200 response that does not        *)
(* decode, the counter having been reset) and the 2 s backoff sleep follows. *)
C5_GenericRetried ==
    [][ (pc = "poll_request" /\ lastRead' \in GenericClasses /\ exit_code' # 130)
        => IF lastRead' = "other" /\ retry_count >= max_retries
           THEN pc' = "exit" /\ exit_code' = 1 /\ error' = << "RequestException" >>
           ELSE /\ pc' = "poll_sleep"
                /\ sleep_secs' = BACKOFF_SECONDS
                /\ retry_count' = IF lastRead' = "other" THEN retry_count + 1 ELSE 1
      ]_vars

C5_Witness ==
    lastRead = "undecodable" /\ pc = "poll_sleep" /\ sleep_secs = BACKOFF_SECONDS

(* C6: at most one creation request is sent in a run, and a creation call    *)
(* that failed has ended the run with its error.                             *)
C6_SingleCreate ==
    /\ posts <= 1
    /\ (posts = 1 /\ task_id = "") =>
           (pc = "exit" /\ exit_code = 1 /\ error # << >> /\ lastRead = "unread")

C6_Witness == posts = 1 /\ task_id = "" /\ HasError("RequestTimeout")

(* What each stage of main presupposes of the stages before it *)
C7_StageInv ==
    /\ (HasError("ImageProcessFailed") \/ HasError("PermissionError"))
           => (posts = 0 /\ create_resp = NO_RESPONSE /\ lastRead = "unread")
    /\ (lastRead # "unread" \/ pc \in PollPcs) => (posts = 1 /\ task_id = "job-1")
    /\ dl_log # << >> =>
           (lastRead = "succeeded" /\ result = "video-url" /\ Len(dl_log) = 1)
    /\ (exit_code = 1 /\ lastRead # "succeeded") => (dl_log = << >> /\ files = << >>)
    /\ posts <= 1

(* C7: the stages run in order and fail closed: a reference that cannot be   *)
(* converted means no creation request; status reads need the task id of a   *)
(* creation call; a download needs a succeeded result with a video URL; and  *)
(* once main has ended nothing more is requested, read or written.           *)
C7_FailClosed ==
    /\ []C7_StageInv
    /\ [][ pc = "exit" => (posts' = posts /\ lastRead' = lastRead /\ now' = now
                             /\ dl_log' = dl_log /\ files' = files) ]_vars

C7_Witness == HasError("ImageProcessFailed") /\ posts = 0 /\ exit_code = 1

CarriesJobId(resp) == resp.kind = "http" /\ resp.body = "dict" /\ resp.id \notin {"none", ""}

(* C10 as stated: every 2xx creation response that carries a job id is a     *)
(* success.                                                                  *)
C10_Original ==
    (CarriesJobId(create_resp) /\ create_resp.status \in 200..299)
        => (task_id = create_resp.id /\ ~ Contains(error, "CreateFailed"))

(* C10, amended: a creation response whose status is exactly 200 and that    *)
(* carries a non-empty job id is a success and that job id is returned.      *)
C10_Status200IsSuccess ==
    (CarriesJobId(create_resp) /\ create_resp.status = 200)
        => (task_id = create_resp.id /\ ~ Contains(error, "CreateFailed"))

C10_Witness ==
    CarriesJobId(create_resp) /\ create_resp.status = 200 /\ pc = "poll_top"

(* The kind of a creation error as main surfaces it: the label the text      *)
(* carries, whether or not the handler of create_video_task has put the      *)
(* creation-failed prefix in front of it                                     *)
ErrorKind(e) ==
    IF e = << >> THEN "none"
    ELSE IF e[1] # "CreateFailed" THEN e[1]
    ELSE IF Len(e) >= 2 /\ e[2] \in {"RateLimited", "BadParams", "MissingTaskId"}
    THEN e[2]
    ELSE "CreateFailed"

(* The kind the status code of an error response stands for *)
KindOfStatus(st) ==
    IF st = 401 THEN "AuthFailed"
    ELSE IF st = 403 THEN "PermissionDenied"
    ELSE IF st = 429 THEN "RateLimited"
    ELSE IF st = 400 THEN "BadParams"
    ELSE "CreateFailed"

CreateAnswered == posts = 1 /\ create_resp.kind = "http"

(* C11: for a creation response with a status outside 2xx the kind of the    *)
(* error main ends with is fixed by the status code, whatever the body: 401  *)
(* authentication, 403 permission, 429 rate limit, 400 validation, any other *)
(* the creation (server) error; the 400 and the server error carry the       *)
(* message taken from the body, which is "HTTP <status>" when the body does  *)
(* not decode.                                                               *)
C11_KindByStatus ==
    (CreateAnswered /\ create_resp.status \notin 200..299) =>
        /\ pc = "exit" /\ exit_code = 1
        /\ ErrorKind(error) = KindOfStatus(create_resp.status)
        /\ create_resp.status \in {401, 403} => Len(error) = 1
        /\ create_resp.status = 429 => error = << "CreateFailed", "RateLimited" >>
        /\ create_resp.status \notin {401, 403, 429} =>
               /\ error[Len(error)] = ErrorMsg(create_resp)
               /\ create_resp.body # "dict" =>
                      error[Len(error)] = "HTTP " \o ToString(create_resp.status)

C11_Witness ==
    /\ CreateAnswered /\ create_resp.status = 429
    /\ create_resp.body = "dict" /\ create_resp.err = "dict_msg"
    /\ ErrorKind(error) = "RateLimited"

(* A read that yielded a status value the engine could inspect *)
StatusClasses == NonTerminalClasses \cup TerminalClasses

(* poll_task_status has raised the error of a failed status read *)
PollEscalated ==
    /\ pc = "exit" /\ exit_code = 1 /\ lastRead \in FailedClasses
    /\ Len(error) > 0 /\ error[1] \in ReadErrors \cup {"RequestException"}

(* C12 as stated: retry_count is zero after a successful read, equals the    *)
(* number of failed reads since the last successful one, and the engine      *)
(* escalates only on three transient failures in a row.                      *)
C12_Original ==
    /\ lastRead \in StatusClasses => retry_count = 0
    /\ lastRead \in FailedClasses => retry_count = consecFailed
    /\ PollEscalated => consecTransient >= 3

(* C12, amended: retry_count is zero after every read that yields a status;  *)
(* every HTTP 200 response sets it to zero before the body is looked at, so  *)
(* a 200 response that then fails leaves it at 1; every other failed read,   *)
(* transient or not, adds one unless the generic handler aborts at the cap;  *)
(* hence it never exceeds the number of failed reads in a row, failures on   *)
(* the two sides of a good read never add up, and the engine escalates only  *)
(* when three reads in a row have failed, of whatever kind.                  *)
C12_CounterReset ==
    /\ [](lastRead \in StatusClasses => retry_count = 0)
    /\ [](retry_count <= consecFailed)
    /\ [](PollEscalated => (consecFailed >= 3 /\ retry_count >= max_retries))
    /\ [][ (pc = "poll_request" /\ exit_code' # 130) =>
             retry_count' =
               IF lastRead' \in StatusClasses THEN 0
               ELSE IF lastRead' \in GenericClasses \ {"other"} THEN 1
               ELSE IF lastRead' = "other" /\ retry_count >= max_retries
               THEN retry_count
               ELSE retry_count + 1 ]_vars

C12_Witness ==
    /\ pc = "poll_sleep" /\ consecTransient = 2 /\ retry_count = 2
    /\ waits = 1 /\ gets = max_retries + 1

(* C13 as stated: elapsed is not compared with timeout between a transient   *)
(* failure and its retry, so TimeoutError is never raised while retry_count  *)
(* is above zero.                                                            *)
C13_Original == (pc = "exit" /\ HasError("TaskTimeout")) => retry_count = 0

(* C13, amended: a transient failure below the cap is followed by a sleep of *)
(* the fixed 2 s (not of poll_interval) and then by the top of the loop,     *)
(* where elapsed is compared with timeout before the read is issued again:   *)
(* every status request, a retry included, directly follows a check that     *)
(* found elapsed <= timeout, and a retry that is due when elapsed > timeout  *)
(* is replaced by TimeoutError.                                              *)
C13_RecheckBeforeRetry ==
    /\ [][ (pc = "poll_request" /\ pc' = "poll_sleep"
              /\ lastRead' \in TransientClasses)
           => (sleep_secs' = BACKOFF_SECONDS /\ retry_count' = retry_count + 1
                 /\ retry_count' < max_retries) ]_vars
    /\ [][ (pc = "poll_sleep" /\ exit_code' # 130)
           => (pc' = "poll_top" /\ now' = now + sleep_secs * TicksPerSecond
                 /\ retry_count' = retry_count) ]_vars
    /\ [][ (pc # "poll_request" /\ pc' = "poll_request")
           => (pc = "poll_top" /\ ~ TimedOut(Elapsed(now), timeout) /\ now' = now) ]_vars
    /\ [][ (pc = "poll_top" /\ retry_count > 0 /\ TimedOut(Elapsed(now), timeout)
              /\ exit_code' # 130)
           => (pc' = "exit" /\ exit_code' = 1 /\ error' = << "TaskTimeout" >>
                 /\ gets' = gets) ]_vars

C13_Witness ==
    /\ pc = "exit" /\ HasError("TaskTimeout")
    /\ retry_count > 0 /\ lastRead \in TransientClasses

(* The status values that are neither succeeded nor failed *)
OtherStatusClasses == NonTerminalClasses \cup {"unhashable"}

(* After a read of the given classes the engine has not ended by itself, the *)
(* counter is zero and the sleep that follows is the one of a full cycle     *)
StaysPolling(classes) ==
    lastRead \in classes =>
        /\ (pc = "exit" => (exit_code = 130 \/ HasError("TaskTimeout")))
        /\ retry_count = 0
        /\ pc = "poll_sleep" => sleep_secs = poll_interval

(* C14: a status read that returns a value other than succeeded or failed    *)
(* (queued, running, an unknown value of any JSON type, or no status field)  *)
(* never ends poll_task_status by itself; the engine stays in polling with   *)
(* retry_count at zero and goes on to the next cycle.                        *)
C14_OtherStatusNonFatal == StaysPolling(OtherStatusClasses)

(* The same for the values the lookup of line 327 accepts: strings, numbers, *)
(* null, or no status field                                                  *)
HashableStatusNonFatal == StaysPolling(NonTerminalClasses)

(* Positions inside the try block of main *)
TryPcs == { "create" } \cup PollPcs \cup { "download" }

(* Every stage of the pipeline has succeeded *)
AllStagesSucceeded ==
    /\ posts = 1 /\ CarriesJobId(create_resp) /\ task_id = create_resp.id
    /\ lastRead = "succeeded" /\ result = "video-url"
    /\ Len(dl_log) = 1 /\ dl_log[1][3] = "ok"
    /\ files = WithFile(<< >>, PathStr(output), "complete")
    /\ error = << >>

(* C15: main ends with status 0 only when creation, polling and download     *)
(* all succeeded; an exception of any stage (and a rejected argument) ends   *)
(* it with status 1; KeyboardInterrupt inside the try block, during polling  *)
(* or download in particular, ends it with status 130; there is no other     *)
(* exit status.                                                              *)
C15_ExitStatus ==
    /\ [](IF pc = "exit" THEN exit_code \in {0, 1, 130} ELSE exit_code = -1)
    /\ [](exit_code = 0 => AllStagesSucceeded)
    /\ [](error # << >> => (pc = "exit" /\ exit_code = 1))
    /\ [][ (pc \in TryPcs /\ pc' = "exit") =>
             \/ exit_code' = 0 /\ pc = "download" /\ error' = << >>
                  /\ Len(dl_log') = 1 /\ dl_log'[1][3] = "ok"
             \/ exit_code' = 1 /\ error' # << >>
             \/ exit_code' = 130 /\ error' = << >> /\ dl_log' = dl_log
                  /\ gets' = gets /\ posts' = posts ]_vars
    /\ [][ (pc = "start" /\ pc' = "exit") => exit_code' = 1 ]_vars
    /\ [][ pc = "exit" => (pc' = "exit" /\ exit_code' = exit_code) ]_vars

C15_Witness ==
    /\ pc = "exit" /\ exit_code = 130
    /\ lastRead \in NonTerminalClasses /\ gets >= 2 /\ dl_log = << >>

(* The run met no failure: the creation call returned a task id, no status   *)
(* read failed, the reads ended with succeeded and a video URL, and no       *)
(* download failed                                                           *)
NoFailure ==
    /\ task_id # "" /\ ~ anyFailed
    /\ lastRead = "succeeded" /\ result = "video-url"
    /\ \A k \in 1..Len(dl_log) : dl_log[k][3] = "ok"

(* C16: when the creation call returns a task id and the status reads give   *)
(* n non-terminal statuses and then succeeded with a video URL, nothing      *)
(* failing, exactly one creation request and n + 1 status reads have been    *)
(* made when poll_task_status returns, and main ends with exactly one        *)
(* download, exactly one file, complete, at the path given by --output       *)
(* without index, and exit status 0.  (The references given with --image     *)
(* play no part: the case of none is included.)                              *)
C16_HappyPath ==
    NoFailure =>
        /\ posts = 1
        /\ pc \in {"download", "exit"}
        /\ gets = Min(waits + 1, MaxReads)
        /\ (pc = "exit" /\ exit_code # 130) =>
               /\ exit_code = 0 /\ error = << >>
               /\ Len(dl_log) = 1
               /\ dl_log[1][2] = output.parent \o "/" \o output.stem \o output.suffix
               /\ dl_log[1][4] = result
               /\ DOMAIN files = { dl_log[1][2] }
               /\ files[dl_log[1][2]] = "complete"

C16_Witness ==
    /\ NoFailure /\ pc = "exit" /\ exit_code = 0
    /\ waits = 2 /\ gets = 3 /\ posts = 1
    /\ DOMAIN files = { "./generated_video.mp4" }

(* The creation response decoded to a JSON object without a usable id *)
LacksJobId(resp) ==
    resp.kind = "http" /\ resp.body = "dict" /\ resp.id \in {"none", ""}

(* The run ended in create_video_task: no status read was issued *)
EndedAtCreate ==
    pc = "exit" /\ exit_code = 1 /\ gets = 0 /\ lastRead = "unread" /\ dl_log = << >>

(* C20 as stated: every 2xx creation response without a job id fails with    *)
(* the missing-identifier error and no status read follows.                  *)
C20_Original ==
    (posts = 1 /\ LacksJobId(create_resp) /\ create_resp.status \in 200..299) =>
        (EndedAtCreate /\ ErrorKind(error) = "MissingTaskId")

(* C20, amended: a creation response with status exactly 200 whose body is   *)
(* a JSON object without a non-empty id fails with the missing-identifier    *)
(* message (under the creation-failed prefix the handler adds), which no     *)
(* response with another status gives, and no status read follows; a 2xx     *)
(* status other than 200 gives the creation error with the message of the    *)
(* body or "HTTP <status>", id or not.                                       *)
C20_MissingId ==
    /\ (posts = 1 /\ LacksJobId(create_resp) /\ create_resp.status = 200) =>
           (EndedAtCreate /\ error = << "CreateFailed", "MissingTaskId" >>)
    /\ (CreateAnswered /\ create_resp.status # 200) =>
           (EndedAtCreate /\ ErrorKind(error) # "MissingTaskId")
    /\ (CreateAnswered /\ create_resp.status \in 201..299) =>
           error = << "CreateFailed", ErrorMsg(create_resp) >>

C20_Witness ==
    /\ posts = 1 /\ create_resp.status = 200 /\ LacksJobId(create_resp)
    /\ create_resp.id = "" /\ error = << "CreateFailed", "MissingTaskId" >>

(* C21: whatever the classes of the failures, the generic branch included,   *)
(* retry_count never exceeds 3 and the engine has aborted by the time three  *)
(* status reads in a row have failed.                                        *)
C21_FailureCap ==
    /\ retry_count <= max_retries
    /\ consecFailed >= max_retries => (pc = "exit" /\ exit_code \in {1, 130})

(* C22: a status request that does not end the engine is followed by one     *)
(* sleep, of poll_interval after a read that gave a non-terminal status and  *)
(* of 2 s after a failed read, and the next request comes only after that    *)
(* sleep has been slept in full and once: between two requests the clock     *)
(* advances by the time of the earlier request plus exactly that one sleep.  *)
C22_OneSleep ==
    /\ [][ (pc = "poll_request" /\ pc' \in PollPcs) =>
             /\ pc' = "poll_sleep"
             /\ lastRead' \in NonTerminalClasses \cup FailedClasses
             /\ sleep_secs' = IF lastRead' \in NonTerminalClasses
                              THEN poll_interval ELSE BACKOFF_SECONDS
             /\ sleep_secs' > 0 ]_vars
    /\ [][ (pc = "poll_sleep" /\ pc' # "exit") =>
             /\ pc' = "poll_top"
             /\ now' = now + sleep_secs * TicksPerSecond
             /\ sleep_secs' = 0 /\ gets' = gets ]_vars
    /\ [][ (pc = "poll_top" /\ pc' # "exit") =>
             (pc' = "poll_request" /\ now' = now /\ gets' = gets) ]_vars
    /\ [][ (pc # "poll_request" /\ pc' = "poll_request") => pc = "poll_top" ]_vars
    /\ [][ (pc # "poll_top" /\ pc' = "poll_top") =>
             \/ pc = "poll_start" /\ gets = 0
             \/ pc = "poll_sleep" /\ sleep_secs > 0 ]_vars
    /\ [](pc \in {"poll_top", "poll_request"} => sleep_secs = 0)

C22_Witness ==
    /\ pc = "poll_request" /\ gets = 2 /\ waits = 1 /\ lastRead = "timeout"
    /\ now = (poll_interval + BACKOFF_SECONDS + STATUS_REQUEST_TIMEOUT)
                 * TicksPerSecond

(* poll_task_status has been left in one of its four ways (or the user has   *)
(* interrupted it)                                                           *)
PollEnded ==
    \/ pc = "download" /\ lastRead = "succeeded"
    \/ pc = "exit" /\ exit_code = 1 /\ HasError("TaskFailed")
    \/ pc = "exit" /\ exit_code = 1 /\ HasError("TaskTimeout")
    \/ PollEscalated
    \/ pc = "exit" /\ exit_code = 130

(* C23: every call of poll_task_status ends, in a return on succeeded, the   *)
(* job-failure error, the error of a failed read or TimeoutError, whatever   *)
(* the status endpoint answers, given that requests and sleeps end (checked  *)
(* under SpecProgress).                                                      *)
C23_Terminates == (pc = "poll_start") ~> PollEnded

C23_Witness ==
    /\ pc = "exit" /\ HasError("TaskTimeout")
    /\ lastRead = "undecodable" /\ waits = 0 /\ consecFailed = FailCap

(* C25: the elapsed time is cut to whole seconds before it is compared with  *)
(* timeout, so TimeoutError is never raised before timeout + 1 seconds have   *)
(* elapsed, a check made while the whole seconds elapsed equal timeout still  *)
(* issues a status request, and no status request is issued once             *)
(* timeout + 1 seconds have elapsed.                                         *)
C25_TruncatedElapsed ==
    /\ []((pc = "exit" /\ HasError("TaskTimeout"))
            => now >= (timeout + 1) * TicksPerSecond)
    /\ [][ (pc = "poll_top" /\ now \div TicksPerSecond = timeout
              /\ pc' # "poll_top" /\ exit_code' # 130)
           => (pc' = "poll_request" /\ error' = << >>) ]_vars
    /\ []((pc = "poll_request") => now \div TicksPerSecond <= timeout)

C25_Witness ==
    /\ pc = "poll_request"
    /\ now \div TicksPerSecond = timeout
    /\ now > timeout * TicksPerSecond
    /\ gets >= 1

-----------------------------------------------------------------------------
(* Properties of generate_image.py, checked under SpecImage *)

Attempted(i) == \E k \in 1..Len(dl_log) : dl_log[k][1] = i

MainEnded == pc = "exit" /\ exit_code # 130

(* C8: in a result of two or more artifacts a failed download does not       *)
(* abort the batch: when main has ended, every artifact that has a URL has   *)
(* been tried.                                                               *)
C8_BatchContinues ==
    (Len(data) >= 2 /\ MainEnded) =>
        \A i \in 1..Len(data) : data[i] # "" => Attempted(i)

(* C9: of two or more artifacts, the one at position i that has a URL is     *)
(* fetched from that URL into {parent}/{stem}_{i}{suffix}; downloads follow  *)
(* the list order; an artifact without a URL is passed over and the ones     *)
(* after it keep their index; when every download succeeded the run ends     *)
(* with exit status 0 and exactly the files of the artifacts that have a URL.*)
C9_MultiArtifact ==
    Len(data) >= 2 =>
        /\ \A k \in 1..Len(dl_log) :
              LET i == dl_log[k][1]
              IN  /\ i \in 1..Len(data)
                  /\ data[i] # ""
                  /\ dl_log[k][4] = data[i]
                  /\ dl_log[k][2] = output.parent \o "/" \o output.stem \o "_"
                                        \o ToString(i) \o output.suffix
                  /\ \A j \in 1..(k - 1) : dl_log[j][1] < i
        /\ \A i \in 1..idx : (data[i] # "" /\ i < idx) => Attempted(i)
        /\ (MainEnded /\ \A k \in 1..Len(dl_log) : dl_log[k][3] = "ok") =>
              /\ exit_code = 0
              /\ idx = Len(data)
              /\ DOMAIN files = { IndexedPath(output, i) :
                                    i \in { j \in 1..Len(data) : data[j] # "" } }
              /\ \A q \in DOMAIN files : files[q] = "complete"

C9_Witness ==
    /\ data = << ArtifactUrl(1), "", ArtifactUrl(3) >>
    /\ output = IMAGE_OUTPUT
    /\ pc = "exit" /\ exit_code = 0
    /\ DOMAIN files = { "./generated_image_1.png", "./generated_image_3.png" }


-----------------------------------------------------------------------------
(* Properties of process_image_path, checked under SpecNormalize *)

IsRemote(s) == StartsWith(s, HTTP_PREFIX) \/ StartsWith(s, HTTPS_PREFIX)

IsInline(s) == StartsWith(s, DATA_PREFIX)

EndsWith(s, t) == Len(s) >= Len(t) /\ SubSeq(s, Len(s) - Len(t) + 1, Len(s)) = t

(* What the file system holds at the path a local input names *)
GivenEntry == norm_fs[LocalPathOf(norm_input)]

Called == pc # "normalize"

(* C17: a string that starts with http:// or https://, or with data:, comes  *)
(* back as it is, with no error and no warning, whatever the file system     *)
(* holds; every string the function returns starts with one of the three;    *)
(* so the function applied to its own result returns that result.            *)
C17_Idempotent ==
    /\ (Called /\ (IsRemote(norm_input) \/ IsInline(norm_input))) =>
           norm_out = [ ok |-> TRUE, url |-> norm_input, exc |-> "", warned |-> FALSE ]
    /\ (Called /\ norm_out.ok) => (IsRemote(norm_out.url) \/ IsInline(norm_out.url))
    /\ (pc = "exit" /\ norm_out.ok) =>
           norm_again = [ ok |-> TRUE, url |-> norm_out.url, exc |-> "",
                          warned |-> FALSE ]

C17_Witness ==
    /\ pc = "exit" /\ norm_input \in LocalInputs /\ GivenEntry.kind = "file"
    /\ norm_out.ok /\ norm_out.url # norm_input /\ norm_again.url = norm_out.url

(* C18: an input that is neither remote nor inline is taken as a local path, *)
(* a leading file:// removed: the call raises FileNotFoundError when nothing *)
(* exists at that path, ValueError when something exists that is no regular  *)
(* file, and returns inline data, the base64 of the file's bytes, only for   *)
(* an existing regular file, and for every such file that can be read.       *)
C18_LocalPath ==
    (Called /\ ~ IsRemote(norm_input) /\ ~ IsInline(norm_input)) =>
        /\ GivenEntry.kind = "missing" =>
               (~ norm_out.ok /\ norm_out.exc = "FileNotFoundError")
        /\ GivenEntry.kind = "dir" =>
               (~ norm_out.ok /\ norm_out.exc = "ValueError")
        /\ norm_out.ok <=> GivenEntry.kind = "file"
        /\ norm_out.ok =>
               /\ IsInline(norm_out.url)
               /\ EndsWith(norm_out.url, BASE64_MARK \o b64encode(GivenEntry.bytes))

C18_Witness ==
    /\ Called /\ norm_input \in FileUrlInputs /\ IsRemote(DropFirst(norm_input, 7))
    /\ GivenEntry.kind = "missing" /\ norm_out.exc = "FileNotFoundError"

(* The MIME type the table gives the extension of the input, lowered;        *)
(* image/jpeg when the table has no such extension                           *)
TableMime ==
    LET ext == Lower(PathSuffix(LocalPathOf(norm_input)))
    IN  IF \E e \in ext_to_mime : e[1] = ext
        THEN (CHOOSE e \in ext_to_mime : e[1] = ext)[2]
        ELSE IMAGE_JPEG

InTable == \E e \in ext_to_mime : e[1] = Lower(PathSuffix(LocalPathOf(norm_input)))

(* C19: for an existing regular file the call never fails because of the     *)
(* extension: a readable file always gives data:<mime>;base64,<bytes>, with  *)
(* the MIME type of the table for an extension of the table in either case,  *)
(* and image/jpeg with the warning for any other extension or none; a file   *)
(* that cannot be opened fails the same way whatever its extension.          *)
C19_MimeFallback ==
    (Called /\ ~ IsRemote(norm_input) /\ ~ IsInline(norm_input)) =>
        /\ GivenEntry.kind = "file" =>
               /\ norm_out.ok
               /\ norm_out.url = DATA_PREFIX \o TableMime \o BASE64_MARK
                                     \o b64encode(GivenEntry.bytes)
               /\ norm_out.warned <=> ~ InTable
               /\ ~ InTable => StartsWith(norm_out.url, DATA_PREFIX \o IMAGE_JPEG)
        /\ GivenEntry.kind = "unreadable" => norm_out.exc = "PermissionError"

C19_Witness ==
    /\ Called /\ GivenEntry.kind = "file" /\ PathSuffix(norm_input) = << >>
    /\ norm_input \in LocalInputs
    /\ norm_out.ok /\ norm_out.warned
    /\ StartsWith(norm_out.url, DATA_PREFIX \o IMAGE_JPEG \o BASE64_MARK)


-----------------------------------------------------------------------------
(* Properties of the downloaders, checked under SpecDownload *)

(* The GET failed before a body was there to stream *)
EarlyFailures == { "timeout", "http_error", "conn" }

(* C24: a download whose GET times out, cannot connect or is answered with   *)
(* an error status leaves the file system as it was: no directory is made,   *)
(* the destination is not created, and a destination that exists keeps its   *)
(* content.                                                                  *)
C24_EarlyFailureFrame ==
    [][ (Len(dl_log') = Len(dl_log) + 1
           /\ dl_log'[Len(dl_log')][3] \in EarlyFailures)
        => (dirs' = dirs /\ files' = files /\ error' # << >>) ]_vars

C24_Witness ==
    /\ Len(dl_log) = 1 /\ dl_log[1][3] = "http_error"
    /\ output.parent \notin dirs
    /\ files = << >> /\ error = << "DownloadFailed", "HTTP 404" >>

=============================================================================
